---- MODULE Spec2Model ----
(***************************************************************************)
(* State-machine model of the MP3Player class of mp3player.py: the         *)
(* playlist (songs / song_table / current_index), the playback flags, the  *)
(* offset anchor, the pygame mixer as the player observes it, the polling   *)
(* timers (update_position every 1000 ms, check_song_end every 500 ms) and *)
(* the spectrum timer's update_spectrum.                                   *)
(*                                                                         *)
(* Time and positions are counted in units of 10 ms.  A file is named by   *)
(* its path; a table row is the file it shows (all four cells of a row are *)
(* derived from one file).                                                 *)
(***************************************************************************)
EXTENDS Integers, Sequences, FiniteSets, Bags, TLC

\* ---------------------------------------------------------------- bounds
MaxSongs == 2
MaxPausedSteps == 1

\* ------------------------------------------------------- program constants
\* The periods of self.timer (1000 ms) and self.end_timer (500 ms).
PosTimerUnits == 100
EndTimerUnits == 50

None == "None"
Raised == "Raised"

\* The files of the run, each named by its path.
Files == {"a.mp3", "b.ogg", "c.aac", "d.txt"}
Columns == {0, 1, 2}
SeekPcts == {0, 25, 50, 99}

\* ------------------------------------------------------------ the files
\* What a file is to the libraries: "mp3" loads in the mixer and in mutagen's
\* MP3(); "ogg" loads in the mixer and in its own mutagen class, but MP3()
\* raises on it; "aac" is read by mutagen's AAC, but mixer.music.load raises on
\* it; "txt" has no supported extension.
Kind(f) ==
    CASE f = "a.mp3" -> "mp3"
      [] f = "b.ogg" -> "ogg"
      [] f = "c.aac" -> "aac"
      [] OTHER -> "txt"

Supported(f) == Kind(f) # "txt"
MixerLoads(f) == Kind(f) \in {"mp3", "ogg"}
MP3Reads(f) == Kind(f) = "mp3"

\* The length of the audio of a file, in units of 10 ms: the Ogg file is the
\* longest.
Dur(f) ==
    CASE f = "a.mp3" -> 2 * PosTimerUnits
      [] f = "b.ogg" -> 4 * PosTimerUnits
      [] OTHER -> PosTimerUnits

\* The sort keys of the columns Track (0), Title (1), Filename (2): the tags
\* and names of the files.
TrackNo(f) ==
    CASE f = "a.mp3" -> 2
      [] f = "b.ogg" -> 1
      [] OTHER -> 0

TitleKey(f) ==
    CASE f = "a.mp3" -> 2
      [] f = "b.ogg" -> 3
      [] f = "c.aac" -> 1
      [] OTHER -> 4

FilenameKey(f) ==
    CASE f = "a.mp3" -> 1
      [] f = "b.ogg" -> 2
      [] f = "c.aac" -> 3
      [] OTHER -> 4

ColKey(col, f) ==
    CASE col = 0 -> TrackNo(f)
      [] col = 1 -> TitleKey(f)
      [] OTHER -> FilenameKey(f)

VARIABLES
    songs,                \* self.songs: the files, in (track, filename) order
    table,                \* self.song_table: the rows, in display order
    current_song,         \* self.current_song: a path or None
    current_index,        \* self.current_index
    is_playing,           \* self.is_playing
    current_song_length,  \* self.current_song_length
    last_known_position,  \* self.last_known_position, the offset anchor
    current_sort_column,  \* self.current_sort_column
    current_sort_order,   \* self.current_sort_order: "asc" or "desc"
    current_time,         \* the position self.current_time_label shows
    mixer,                \* pygame.mixer.music
    posDue,               \* self.timer has timed out and its slot has not run yet
    endDue,               \* self.end_timer has timed out and its slot has not run yet
    phase,                \* 500 ms steps since self.timer last timed out
    crashed,              \* an exception left a slot unhandled: the application aborted
    spectrum,             \* the data of the spectrum analyzer's line, in 0.01 dB
    \* History of the run, read by the properties only.
    op,                   \* the handler that ran last
    pre_index,            \* current_index before a playlist operation that ran last, else -1
    shown,                \* what update_position displayed if it ran last, else NoReport
    ended,                \* the music ended by itself while is_playing, no advance or user action since
    advances,             \* calls of next_song by check_song_end since the music last ended
    seekCtx,              \* the seek no update_position has followed yet
    pauseCtx,             \* the pause the player is in or has resumed from
    userStopped,          \* stop() was the last user action
    run,                  \* the clicks of the next button in a row, up to one round
    tick                  \* what the timer slot that ran last met

progVars == <<songs, table, current_song, current_index, is_playing,
              current_song_length, last_known_position, current_sort_column,
              current_sort_order, current_time, mixer, posDue, endDue, phase,
              crashed, spectrum>>

histVars == <<op, pre_index, shown, ended, advances, seekCtx, pauseCtx, userStopped,
              run, tick>>

vars == <<progVars, histVars>>

\* pct: the slider value the seek was released at, -1 when no seek is waiting
\* for its first update_position; length: current_song_length at the seek;
\* paused: the music was paused at the seek.
NoSeek == [pct |-> -1, length |-> 0, paused |-> FALSE]

\* time, slider: the position update_position computed and the slider value it
\* set, -1 when it computed none; seek: the seek this was the first tick after.
NoReport == [time |-> -1, slider |-> -1, seek |-> NoSeek]

\* pos: the position in the file the music was paused at, -1 outside a pause;
\* before: the position shown at the pause; steps: 500 ms steps spent paused
\* (counted up to MaxPausedSteps); resumed: play_pause has resumed from it;
\* rendered: audio rendered since the resume; reports: positions
\* update_position computed since the resume (0, 1, many).
NoPause ==
    [pos |-> -1, before |-> -1, steps |-> 0, resumed |-> FALSE, rendered |-> 0,
     reports |-> 0]

\* start: current_index before the first of the clicks of the next button that
\* ran last in a row; n: how many they are, 0 when the last handler was another.
NoRun == [start |-> -1, n |-> 0]

\* error: the exception raised inside the timer slot that ran last, "none" when
\* none was or another handler ran last; samples: the size of the frame
\* update_spectrum handed to the analyzer, -1 when it handed none.
NoTick == [error |-> "none", samples |-> -1]

\* ------------------------------------------------------------- sequences
Front(s) == SubSeq(s, 1, Len(s) - 1)

\* x put into the sorted sequence s behind every element whose key is not
\* greater: the step of a stable sort.
InsertByKey(s, x, key) ==
    LET p == Cardinality({i \in 1..Len(s) : key[s[i]] <= key[x]})
    IN  SubSeq(s, 1, p) \o <<x>> \o SubSeq(s, p + 1, Len(s))

RECURSIVE StableSort(_, _)
StableSort(s, key) ==
    IF s = <<>> THEN <<>>
    ELSE InsertByKey(StableSort(Front(s), key), s[Len(s)], key)

\* self.songs.sort(key=lambda x: (x['track'], x['filename']))
SongKey == [f \in Files |-> TrackNo(f) * (Cardinality(Files) + 1) + FilenameKey(f)]

SortSongs(s) == StableSort(s, SongKey)

\* self.song_table.sortItems(column, order): Qt sorts the rows with a stable
\* sort on the cells of the column, ascending or descending.
SortItems(tbl, col, order) ==
    StableSort(tbl, [f \in Files |->
                        IF order = "asc" THEN ColKey(col, f) ELSE 0 - ColKey(col, f)])

\* The multiset of the elements of a sequence.
BagOfSeq(s) ==
    LET elems == {s[i] : i \in 1..Len(s)}
    IN  [e \in elems |-> Cardinality({i \in 1..Len(s) : s[i] = e})]

\* ------------------------------------------------- pygame.mixer.music
\* loaded: the file of the last successful load, or None.
\* status: "stopped" (never played, stopped, or played to its end),
\*         "playing" or "paused".
\* start:  the start offset of the last play().
\* pos:    what get_pos() returns: the audio rendered since the last play(),
\*         -1 once the music has stopped or ended.
MixerInit == [loaded |-> None, status |-> "stopped", start |-> 0, pos |-> -1]

MixLoad(m, f) == [loaded |-> f, status |-> "stopped", start |-> 0, pos |-> -1]

MixPlay(m, start) == [m EXCEPT !.status = "playing", !.start = start, !.pos = 0]

MixPause(m) == IF m.status = "playing" THEN [m EXCEPT !.status = "paused"] ELSE m

MixStop(m) == [m EXCEPT !.status = "stopped", !.start = 0, !.pos = -1]

GetBusy(m) == m.status = "playing"

GetPos(m) == m.pos

\* The output thread renders `units` of audio; the music ends when the end of
\* the file is reached.
Render(m, units) ==
    IF m.status # "playing" THEN m
    ELSE IF m.start + m.pos + units >= Dur(m.loaded) THEN MixStop(m)
    ELSE [m EXCEPT !.pos = m.pos + units]

\* --------------------------------------------------------- the playlist
get_current_track_path(tbl, idx) ==
    IF idx # -1
    THEN IF 0 <= idx /\ idx < Len(tbl) THEN tbl[idx + 1] ELSE Raised
    ELSE None

\* Mutant of find_track_index: the row counted from 1.
find_track_index_from_one(tbl, path) ==
    LET rows == {row \in 1..Len(tbl) : tbl[row] = path}
    IN  IF rows = {} THEN -1 ELSE CHOOSE row \in rows : \A r \in rows : row <= r

find_track_index(tbl, path) ==
    LET rows == {row \in 0..(Len(tbl) - 1) : tbl[row + 1] = path}
    IN  IF rows = {} THEN -1 ELSE CHOOSE row \in rows : \A r \in rows : row <= r

\* The playlist part of the state, as the playlist operations transform it.
ListState ==
    [songs |-> songs, table |-> table, current_index |-> current_index,
     crashed |-> crashed]

\* Mutant of update_table_display: current_index is left where it was.
update_table_display_by_position(l) ==
    LET current_path == get_current_track_path(l.table, l.current_index)
        sorted == SortSongs(l.songs)
    IN  IF current_path = Raised THEN [l EXCEPT !.crashed = TRUE]
        ELSE [l EXCEPT !.songs = sorted, !.table = sorted]

update_table_display(l) ==
    LET current_path == get_current_track_path(l.table, l.current_index)
        sorted == SortSongs(l.songs)
        new_index == find_track_index(sorted, current_path)
    IN  IF current_path = Raised THEN [l EXCEPT !.crashed = TRUE]
        ELSE [l EXCEPT !.songs = sorted,
                       !.table = sorted,
                       !.current_index =
                           IF current_path # None /\ new_index # -1
                           THEN new_index ELSE @]

\* A file is taken when its extension is supported and its mutagen class
\* reads it.
add_files_to_playlist(l, file_paths) ==
    LET new_songs == SelectSeq(file_paths, Supported)
    IN  IF new_songs # <<>>
        THEN update_table_display([l EXCEPT !.songs = @ \o new_songs])
        ELSE l

\* dirs: the supported files of each directory os.walk yields.
RECURSIVE WalkFolder(_, _)
WalkFolder(l, dirs) ==
    IF dirs = <<>> \/ l.crashed THEN l
    ELSE WalkFolder(add_files_to_playlist(l, Head(dirs)), Tail(dirs))

\* Mutant of load_songs: the rows of the table are not removed.
load_songs_keeps_rows(l, dirs) == WalkFolder([l EXCEPT !.songs = <<>>], dirs)

load_songs(l, dirs) ==
    WalkFolder([l EXCEPT !.songs = <<>>, !.table = <<>>], dirs)

\* ------------------------------------------------------------ playback
PlayerState ==
    [current_song |-> current_song, is_playing |-> is_playing,
     current_song_length |-> current_song_length,
     last_known_position |-> last_known_position, mixer |-> mixer]

\* Mutant of on_play_error: is_playing is left as it was.
on_play_error_keeps_flag(p) == p

\* play_song's except clause.
on_play_error(p) == [p EXCEPT !.is_playing = FALSE]

\* Mutant of update_song_info: the anchor is reset with the length.
update_song_info_resets_anchor(p) ==
    IF p.current_song = None THEN p
    ELSE IF ~MP3Reads(p.current_song) THEN on_play_error(p)
    ELSE [p EXCEPT !.current_song_length = Dur(p.current_song),
                   !.last_known_position = 0]

\* Called at the end of play_song's try block: MP3() raising there is caught
\* by play_song's except clause.
update_song_info(p) ==
    IF p.current_song = None THEN p
    ELSE IF ~MP3Reads(p.current_song) THEN on_play_error(p)
    ELSE [p EXCEPT !.current_song_length = Dur(p.current_song)]

play_song(p, tbl, idx, resume) ==
    IF ~(0 <= idx /\ idx < Len(tbl)) THEN p
    ELSE
      LET path == tbl[idx + 1]
          p1 == [p EXCEPT !.current_song = path]
      IN  IF ~resume
          THEN IF ~MixerLoads(path) THEN on_play_error(p1)
               ELSE IF ~MP3Reads(path)
               THEN on_play_error([p1 EXCEPT !.mixer = MixLoad(@, path)])
               ELSE update_song_info(
                      [p1 EXCEPT !.mixer = MixPlay(MixLoad(@, path), 0),
                                 !.current_song_length = Dur(path),
                                 !.last_known_position = 0,
                                 !.is_playing = TRUE])
          ELSE IF p1.mixer.loaded = None THEN on_play_error(p1)
               ELSE update_song_info(
                      [p1 EXCEPT !.mixer = MixPlay(@, p1.last_known_position),
                                 !.is_playing = TRUE])

\* Mutant of next_index: the index stays on the last track.
next_index_clamped(idx, n) == IF idx + 1 >= n THEN n - 1 ELSE idx + 1

next_index(idx, n) == (idx + 1) % n

\* Mutant of previous_index: the remainder takes the sign of the dividend.
previous_index_truncated(idx, n) ==
    IF idx - 1 < 0 THEN 0 - ((1 - idx) % n) ELSE (idx - 1) % n

\* Python's % with a positive divisor: the result is never negative.
previous_index(idx, n) == (idx - 1) % n

\* Mutant of PositionOf: the time spent paused counts as progress.
PositionOf_wall_clock(p) ==
    GetPos(p.mixer) + p.last_known_position + pauseCtx.steps * EndTimerUnits

\* The position update_position computes from the mixer's clock.
PositionOf(p) == GetPos(p.mixer) + p.last_known_position

\* int(percentage), as QSlider.setValue keeps it within the slider's range.
SliderValue(pos, length) ==
    LET v == (pos * 100) \div length
    IN  IF v > 100 THEN 100 ELSE v

\* Mutant of new_position: the division is an integer division, done first.
new_position_floor_first(percentage, length) == (percentage \div 100) * length

new_position(percentage, length) == (percentage * length) \div 100

\* ---------------------------------------------------------- the spectrum
\* The samples of a frame are 16-bit integers; the frames of the model hold
\* one amplitude each: every sample is -a, 0 or a.
FullScale == 32767

Amplitude(samples) ==
    LET mags == {IF samples[n] < 0 THEN 0 - samples[n] ELSE samples[n] :
                    n \in 1..Len(samples)}
    IN  IF mags = {} THEN 0 ELSE CHOOSE a \in mags : \A b \in mags : b <= a

\* cos and -sin of a quarter turn times j: the twiddle factors of a transform
\* of four samples.
QuarterCos(j) == CASE j % 4 = 0 -> 1 [] j % 4 = 2 -> -1 [] OTHER -> 0
QuarterSin(j) == CASE j % 4 = 1 -> -1 [] j % 4 = 3 -> 1 [] OTHER -> 0

RECURSIVE SumTo(_, _)
SumTo(f, n) == IF n = 0 THEN 0 ELSE f[n] + SumTo(f, n - 1)

\* |np.fft.fft(x)[k]| squared, x the samples divided by their amplitude.
BinPower(samples, k) ==
    LET a == Amplitude(samples)
        N == Len(samples)
        x == [n \in 1..N |-> IF a = 0 THEN 0 ELSE samples[n] \div a]
        re == SumTo([n \in 1..N |-> x[n] * QuarterCos(k * (n - 1))], N)
        im == SumTo([n \in 1..N |-> x[n] * QuarterSin(k * (n - 1))], N)
    IN  re * re + im * im

\* 1000 * log10(n), rounded down, of the numbers the frames give.
MilliLog10(n) ==
    CASE n = 1 -> 0
      [] n = 2 -> 301
      [] n = 4 -> 602
      [] n = 5 -> 698
      [] n = 8 -> 903
      [] n = 9 -> 954
      [] n = 16 -> 1204
      [] n = FullScale -> 4515

\* 20 * np.log10(magnitude + 1e-10) in 0.01 dB, the magnitude being
\* amplitude * sqrt(power): -200 dB for a magnitude of 0.
Decibels(amplitude, power) ==
    IF amplitude = 0 \/ power = 0 THEN -20000
    ELSE 2 * MilliLog10(amplitude) + MilliLog10(power)

\* Mutant of Clip: the upper limit is not applied.
Clip_lower_only(v, lo, hi) == IF v < lo THEN lo ELSE v

\* np.clip
Clip(v, lo, hi) == IF v < lo THEN lo ELSE IF v > hi THEN hi ELSE v

\* What update_spectrum hands to update_plot for the unpacked samples: the
\* first half of the bins, in decibels, clipped to 0..100 dB.
magnitude_spectrum(samples) ==
    [k \in 1..(Len(samples) \div 2) |->
        Clip(Decibels(Amplitude(samples), BinPower(samples, k - 1)), 0, 10000)]

\* The errors update_spectrum meets, all of them subclasses of Exception.
Exceptions == {"struct.error", "OSError"}

\* Mutant of update_spectrum_catches: the clause for struct.error alone.
update_spectrum_catches_struct_only(e) == e = "struct.error"

\* The except clauses of update_spectrum: struct.error, then Exception.
update_spectrum_catches(e) == e = "struct.error" \/ e \in Exceptions

\* -------------------------------------------------------------- inputs
\* What self.stream.read gives: it raises, or returns a buffer of `bytes`
\* bytes holding the samples.
Shapes ==
    {<<0, 0, 0, 0>>, <<1, 1, 1, 1>>, <<1, -1, 1, -1>>, <<1, 0, -1, 0>>, <<1, 0, 0, 0>>}

Scaled(shape, a) == [n \in 1..Len(shape) |-> a * shape[n]]

Captures ==
    {[raises |-> TRUE, bytes |-> 0, samples |-> <<>>]}
    \cup {[raises |-> FALSE, bytes |-> 2 * Len(sh), samples |-> Scaled(sh, a)] :
              sh \in Shapes, a \in {1, FullScale}}
    \cup {[raises |-> FALSE, bytes |-> 2 * Len(sh) - 1,
           samples |-> SubSeq(Scaled(sh, FullScale), 1, Len(sh) - 1)] :
              sh \in {<<1, 1, 1, 1>>}}

\* The lists of files one directory, or one drop, can hold.
Batches ==
    {b \in UNION {[1..n -> Files] : n \in 0..MaxSongs} :
        \A i \in 1..(Len(b) - 1) : FilenameKey(b[i]) < FilenameKey(b[i + 1])}

\* What os.walk yields for a folder without subfolders: one directory with its
\* files.
Folders == {<<b>> : b \in Batches}

\* ------------------------------------------------------- the handlers
Apply(p) ==
    /\ current_song' = p.current_song
    /\ is_playing' = p.is_playing
    /\ current_song_length' = p.current_song_length
    /\ last_known_position' = p.last_known_position
    /\ mixer' = p.mixer

ApplyList(l) ==
    /\ songs' = l.songs
    /\ table' = l.table
    /\ current_index' = l.current_index
    /\ crashed' = l.crashed

playerVars == <<current_song, is_playing, current_song_length, last_known_position, mixer>>
sortVars == <<current_sort_column, current_sort_order>>
timerVars == <<posDue, endDue, phase>>

\* The history after a user action `name`.
UserHist(name, pre, seek, ctx) ==
    /\ op' = name
    /\ pre_index' = pre
    /\ shown' = NoReport
    /\ ended' = FALSE
    /\ advances' = 0
    /\ seekCtx' = seek
    /\ pauseCtx' = ctx
    /\ userStopped' = (name = "stop")
    /\ tick' = NoTick
    /\ run' = IF name = "next_song" /\ songs # <<>>
              THEN IF run.n = 0 \/ run.n >= Len(songs)
                   THEN [start |-> current_index, n |-> 1]
                   ELSE [run EXCEPT !.n = @ + 1]
              ELSE NoRun

Min(a, b) == IF a < b THEN a ELSE b

Init ==
    /\ \E dirs \in Folders :
          LET l == load_songs([songs |-> <<>>, table |-> <<>>,
                               current_index |-> -1, crashed |-> FALSE], dirs)
          IN  /\ songs = l.songs
              /\ table = l.table
              /\ current_index = l.current_index
              /\ crashed = l.crashed
    /\ current_song = None
    /\ is_playing = FALSE
    /\ current_song_length = 0
    /\ last_known_position = 0
    /\ current_sort_column = 0
    /\ current_sort_order = "asc"
    /\ current_time = 0
    /\ mixer = MixerInit
    /\ posDue = FALSE
    /\ endDue = FALSE
    /\ phase = 0
    /\ op = "init"
    /\ pre_index = -1
    /\ shown = NoReport
    /\ ended = FALSE
    /\ advances = 0
    /\ seekCtx = NoSeek
    /\ pauseCtx = NoPause
    /\ userStopped = FALSE
    /\ run = NoRun
    /\ tick = NoTick
    /\ spectrum = <<>>

play_pause ==
    /\ ~crashed
    /\ UNCHANGED spectrum
    /\ IF ~is_playing
       THEN IF current_song # None
            THEN LET p == play_song(PlayerState, table, current_index, TRUE)
                 IN  /\ Apply(p)
                     /\ UNCHANGED current_index
                     /\ UserHist("play_pause", -1, seekCtx,
                                 IF pauseCtx.pos # -1 /\ ~pauseCtx.resumed /\ p.is_playing
                                 THEN [pauseCtx EXCEPT !.resumed = TRUE]
                                 ELSE NoPause)
            ELSE IF songs # <<>>
            THEN /\ current_index' = 0
                 /\ Apply(play_song(PlayerState, table, 0, FALSE))
                 /\ UserHist("play_pause", -1, NoSeek, NoPause)
            ELSE /\ UNCHANGED <<playerVars, current_index>>
                 /\ UserHist("play_pause", -1, NoSeek, NoPause)
       ELSE /\ mixer' = MixPause(mixer)
            /\ is_playing' = FALSE
            /\ UNCHANGED <<current_song, current_song_length, last_known_position,
                           current_index>>
            /\ UserHist("play_pause", -1, seekCtx,
                        IF mixer.status = "playing"
                        THEN [NoPause EXCEPT !.pos = mixer.start + mixer.pos,
                                             !.before = current_time]
                        ELSE NoPause)
    /\ UNCHANGED <<songs, table, sortVars, current_time, timerVars, crashed>>

next_song ==
    IF songs # <<>>
    THEN LET idx == next_index(current_index, Len(songs))
         IN  /\ current_index' = idx
             /\ Apply(play_song(PlayerState, table, idx, FALSE))
    ELSE UNCHANGED <<playerVars, current_index>>

previous_song ==
    IF songs # <<>>
    THEN LET idx == previous_index(current_index, Len(songs))
         IN  /\ current_index' = idx
             /\ Apply(play_song(PlayerState, table, idx, FALSE))
    ELSE UNCHANGED <<playerVars, current_index>>

NextClicked ==
    /\ ~crashed
    /\ UNCHANGED spectrum
    /\ next_song
    /\ UserHist("next_song", -1, NoSeek, NoPause)
    /\ UNCHANGED <<songs, table, sortVars, current_time, timerVars, crashed>>

PreviousClicked ==
    /\ ~crashed
    /\ UNCHANGED spectrum
    /\ previous_song
    /\ UserHist("previous_song", -1, NoSeek, NoPause)
    /\ UNCHANGED <<songs, table, sortVars, current_time, timerVars, crashed>>

play_selected_song(row) ==
    /\ ~crashed
    /\ UNCHANGED spectrum
    /\ current_index' = row
    /\ Apply(play_song(PlayerState, table, row, FALSE))
    /\ UserHist("play_selected_song", -1, NoSeek, NoPause)
    /\ UNCHANGED <<songs, table, sortVars, current_time, timerVars, crashed>>

\* Mutant of seek_allowed: the length is not looked at.
seek_allowed_any_length(song, length) == song # None

\* The condition of seek_position.
seek_allowed(song, length) == song # None /\ length > 0

\* The slider is released at `percentage`.
seek_position(percentage) ==
    /\ ~crashed
    /\ UNCHANGED spectrum
    /\ IF seek_allowed(current_song, current_song_length)
       THEN LET pos == new_position(percentage, current_song_length)
            IN  IF mixer.loaded = None
                THEN /\ mixer' = MixStop(mixer)
                     /\ crashed' = TRUE
                     /\ UNCHANGED <<last_known_position, is_playing>>
                     /\ UserHist("seek_position", -1, NoSeek, NoPause)
                ELSE /\ mixer' = MixPlay(MixStop(mixer), pos)
                     /\ last_known_position' = pos
                     /\ is_playing' = TRUE
                     /\ UNCHANGED crashed
                     /\ UserHist("seek_position", -1,
                                 [pct |-> percentage, length |-> current_song_length,
                                  paused |-> mixer.status = "paused"],
                                 NoPause)
       ELSE /\ UNCHANGED <<mixer, last_known_position, is_playing, crashed>>
            /\ UserHist("seek_position", -1, NoSeek, pauseCtx)
    /\ UNCHANGED <<current_song, current_song_length, current_index, songs, table,
                   sortVars, current_time, timerVars>>

stop ==
    /\ ~crashed
    /\ UNCHANGED spectrum
    /\ mixer' = MixStop(mixer)
    /\ UserHist("stop", -1, NoSeek, NoPause)
    /\ UNCHANGED <<current_song, is_playing, current_song_length, last_known_position,
                   current_index, songs, table, sortVars, current_time, timerVars,
                   crashed>>

sort_table(column) ==
    /\ ~crashed
    /\ UNCHANGED spectrum
    /\ LET order == IF current_sort_column = column
                    THEN (IF current_sort_order = "asc" THEN "desc" ELSE "asc")
                    ELSE "asc"
           sorted == SortItems(table, column, order)
           current_path == get_current_track_path(sorted, current_index)
       IN  /\ current_sort_column' = column
           /\ current_sort_order' = order
           /\ table' = sorted
           /\ IF current_index # -1
              THEN IF current_path = Raised
                   THEN crashed' = TRUE /\ UNCHANGED current_index
                   ELSE /\ current_index' = find_track_index(sorted, current_path)
                        /\ UNCHANGED crashed
              ELSE UNCHANGED <<current_index, crashed>>
    /\ UserHist("sort_table", current_index, seekCtx, pauseCtx)
    /\ UNCHANGED <<songs, playerVars, current_time, timerVars>>

\* Mutant of Shuffled: the first row is left out when the table is filled again.
Shuffled_without_first(rows_data, perm) ==
    [i \in 1..(Len(rows_data) - 1) |-> rows_data[perm[i + 1]]]

\* rows_data after random.shuffle: row i holds what row perm[i] held.
Shuffled(rows_data, perm) == [i \in 1..Len(rows_data) |-> rows_data[perm[i]]]

shuffle_playlist ==
    /\ ~crashed
    /\ UNCHANGED spectrum
    /\ IF Len(table) = 0
       THEN UNCHANGED <<table, current_index, crashed>>
       ELSE LET current_path == get_current_track_path(table, current_index)
            IN  IF current_path = Raised
                THEN crashed' = TRUE /\ UNCHANGED <<table, current_index>>
                ELSE \E perm \in Permutations(1..Len(table)) :
                        /\ table' = Shuffled(table, perm)
                        /\ current_index' =
                              IF current_path # None
                              THEN find_track_index(table', current_path)
                              ELSE current_index
                        /\ UNCHANGED crashed
    /\ UserHist("shuffle_playlist", current_index, seekCtx, pauseCtx)
    /\ UNCHANGED <<songs, sortVars, playerVars, current_time, timerVars>>

\* Files dropped on the table, or a directory added from the browser, while
\* the playlist has room for them.
FilesDroppedUpTo(file_paths, room) ==
    /\ ~crashed
    /\ UNCHANGED spectrum
    /\ Len(songs) + Len(file_paths) <= room
    /\ ApplyList(add_files_to_playlist(ListState, file_paths))
    /\ UserHist("add_files_to_playlist", current_index, seekCtx, pauseCtx)
    /\ UNCHANGED <<sortVars, playerVars, current_time, timerVars>>

FilesDropped(file_paths) == FilesDroppedUpTo(file_paths, MaxSongs)

select_folder(dirs) ==
    /\ ~crashed
    /\ UNCHANGED spectrum
    /\ ApplyList(load_songs(ListState, dirs))
    /\ UserHist("select_folder", current_index, seekCtx, pauseCtx)
    /\ UNCHANGED <<sortVars, playerVars, current_time, timerVars>>

\* ------------------------------------------------------------ the timers
update_position ==
    /\ ~crashed
    /\ UNCHANGED spectrum
    /\ posDue
    /\ posDue' = FALSE
    /\ IF current_song # None /\ is_playing
       THEN IF GetPos(mixer) < 0
            THEN /\ is_playing' = FALSE
                 /\ shown' = NoReport
                 /\ tick' = NoTick
                 /\ UNCHANGED <<current_time, pauseCtx>>
            ELSE /\ UNCHANGED is_playing
                 /\ IF current_song_length = 0
                    THEN /\ shown' = NoReport
                         /\ tick' = [NoTick EXCEPT !.error = "ZeroDivisionError"]
                         /\ UNCHANGED <<current_time, pauseCtx>>
                    ELSE /\ current_time' = PositionOf(PlayerState)
                         /\ tick' = NoTick
                         /\ shown' = [time |-> current_time',
                                      slider |-> SliderValue(current_time',
                                                             current_song_length),
                                      seek |-> seekCtx]
                         /\ pauseCtx' = IF pauseCtx.resumed
                                        THEN [pauseCtx EXCEPT !.reports = Min(@ + 1, 2)]
                                        ELSE pauseCtx
       ELSE /\ UNCHANGED <<is_playing, current_time, pauseCtx>>
            /\ shown' = NoReport
            /\ tick' = NoTick
    /\ op' = "update_position"
    /\ pre_index' = -1
    /\ seekCtx' = NoSeek
    /\ run' = NoRun
    /\ UNCHANGED <<ended, advances, userStopped>>
    /\ UNCHANGED <<songs, table, current_song, current_index, current_song_length,
                   last_known_position, sortVars, mixer, endDue, phase, crashed>>

\* Mutant of song_end_seen: the flag is not looked at.
song_end_seen_without_flag(playing, m) == ~GetBusy(m)

\* The condition of check_song_end.
song_end_seen(playing, m) == playing /\ ~GetBusy(m)

check_song_end ==
    /\ ~crashed
    /\ UNCHANGED spectrum
    /\ endDue
    /\ endDue' = FALSE
    /\ IF song_end_seen(is_playing, mixer)
       THEN /\ next_song
            /\ tick' = IF songs # <<>> /\ ~is_playing'
                       THEN [NoTick EXCEPT !.error = "load"] ELSE NoTick
            /\ IF songs # <<>>
               THEN /\ ended' = FALSE
                    /\ advances' = Min(advances + 1, 2)
                    /\ pauseCtx' = NoPause
                    /\ seekCtx' = NoSeek
               ELSE UNCHANGED <<ended, advances, pauseCtx, seekCtx>>
       ELSE /\ UNCHANGED <<playerVars, current_index, ended, advances, pauseCtx, seekCtx>>
            /\ tick' = NoTick
    /\ op' = "check_song_end"
    /\ pre_index' = -1
    /\ shown' = NoReport
    /\ run' = NoRun
    /\ UNCHANGED userStopped
    /\ UNCHANGED <<songs, table, sortVars, current_time, posDue, phase, crashed>>

\* The slot of spectrum_timer, with what the input stream gives it.  The timer
\* times out every 50 ms: the slot runs any number of times between two steps
\* of the other timers.
update_spectrum(data) ==
    /\ ~crashed
    /\ IF GetBusy(mixer)
       THEN LET actual_chunk_size == data.bytes \div 2
                e == IF data.raises THEN "OSError"
                     ELSE IF data.bytes # 2 * actual_chunk_size THEN "struct.error"
                     ELSE "none"
            IN  /\ spectrum' = IF e = "none" THEN magnitude_spectrum(data.samples)
                               ELSE spectrum
                /\ crashed' = (e # "none" /\ ~update_spectrum_catches(e))
                /\ tick' = [error |-> e,
                            samples |-> IF e = "none" THEN actual_chunk_size ELSE -1]
       ELSE /\ UNCHANGED <<spectrum, crashed>>
            /\ tick' = NoTick
    /\ op' = "update_spectrum"
    /\ pre_index' = -1
    /\ shown' = NoReport
    /\ run' = NoRun
    /\ UNCHANGED <<ended, advances, seekCtx, pauseCtx, userStopped>>
    /\ UNCHANGED <<songs, table, current_song, current_index, is_playing,
                   current_song_length, last_known_position, sortVars, current_time,
                   mixer, timerVars>>

\* 500 ms pass: the output thread renders them, end_timer times out, and so
\* does timer on every second step.  A timer's slot runs before more time passes.
Elapse ==
    /\ ~crashed
    /\ UNCHANGED spectrum
    /\ ~posDue /\ ~endDue
    /\ LET m == Render(mixer, EndTimerUnits)
           endsNow == mixer.status = "playing" /\ m.status = "stopped"
       IN  /\ mixer' = m
           /\ ended' = IF endsNow /\ is_playing /\ songs # <<>> THEN TRUE ELSE ended
           /\ advances' = IF endsNow THEN 0 ELSE advances
           /\ pauseCtx' =
                 IF pauseCtx.pos = -1 THEN pauseCtx
                 ELSE IF ~pauseCtx.resumed
                 THEN [pauseCtx EXCEPT !.steps = Min(@ + 1, MaxPausedSteps)]
                 ELSE IF endsNow THEN NoPause
                 ELSE IF mixer.status = "playing"
                 THEN [pauseCtx EXCEPT !.rendered = @ + EndTimerUnits]
                 ELSE pauseCtx
    /\ endDue' = TRUE
    /\ posDue' = (phase + 1 = PosTimerUnits \div EndTimerUnits)
    /\ phase' = (phase + 1) % (PosTimerUnits \div EndTimerUnits)
    /\ op' = "elapse"
    /\ pre_index' = -1
    /\ shown' = NoReport
    /\ run' = NoRun
    /\ tick' = NoTick
    /\ UNCHANGED <<seekCtx, userStopped>>
    /\ UNCHANGED <<songs, table, current_song, current_index, is_playing,
                   current_song_length, last_known_position, sortVars, current_time,
                   crashed>>

\* The buttons and the table's double click.
PlaybackOps ==
    \/ play_pause
    \/ NextClicked
    \/ PreviousClicked
    \/ \E row \in 0..(Len(table) - 1) : play_selected_song(row)
    \/ stop

\* The operations on the playlist.
ListOps ==
    \/ \E column \in Columns : sort_table(column)
    \/ shuffle_playlist
    \/ \E file_paths \in Batches \ {<<>>} : FilesDropped(file_paths)
    \/ \E dirs \in Folders : select_folder(dirs)

Timers ==
    \/ update_position
    \/ check_song_end
    \/ Elapse

\* The player with its playlist operations; the slider is released half way.
Next ==
    \/ PlaybackOps
    \/ \E percentage \in {50} : seek_position(percentage)
    \/ ListOps
    \/ Timers

Spec == Init /\ [][Next]_vars

\* Playback of a playlist that stays as loaded; the slider is released anywhere
\* in SeekPcts.
PlaybackNext ==
    \/ PlaybackOps
    \/ \E percentage \in SeekPcts : seek_position(percentage)
    \/ Timers

PlaybackSpec == Init /\ [][PlaybackNext]_vars

\* The player with no time passing: the user's operations alone.
ListNext ==
    \/ PlaybackOps
    \/ \E percentage \in {50} : seek_position(percentage)
    \/ ListOps

ListSpec == Init /\ [][ListNext]_vars

\* Playing, pausing, skipping and seeking while the playlist is sorted by
\* track, shuffled and added to, and time passes.
AnchorNext ==
    \/ play_pause
    \/ NextClicked
    \/ \E percentage \in {50} : seek_position(percentage)
    \/ \E column \in {0} : sort_table(column)
    \/ shuffle_playlist
    \/ \E file_paths \in Batches \ {<<>>} : FilesDropped(file_paths)
    \/ Timers

AnchorSpec == Init /\ [][AnchorNext]_vars

\* Files added one at a time to a playlist that is sorted and shuffled, with a
\* track chosen by double click; the playlist grows one track beyond the
\* largest folder.
AddNext ==
    \/ \E row \in 0..(Len(table) - 1) : play_selected_song(row)
    \/ \E column \in Columns : sort_table(column)
    \/ shuffle_playlist
    \/ \E f \in Files : FilesDroppedUpTo(<<f>>, MaxSongs + 1)

AddSpec == Init /\ [][AddNext]_vars

\* The three timers at work while the user plays, pauses and skips.
TickNext ==
    \/ play_pause
    \/ NextClicked
    \/ Timers
    \/ \E data \in Captures : update_spectrum(data)

TickSpec == Init /\ [][TickNext]_vars

\* The Qt event loop runs the slot of a timer that has timed out, and time
\* passes.
FairPlaybackSpec ==
    /\ PlaybackSpec
    /\ WF_vars(update_position)
    /\ WF_vars(check_song_end)
    /\ WF_vars(Elapse)

\* ------------------------------------------------------------ properties
InRange(idx, tbl) == 0 <= idx /\ idx < Len(tbl)

Abs(x) == IF x < 0 THEN 0 - x ELSE x

\* C1: once the music has ended by itself while is_playing, with a playlist
\* that is not empty, check_song_end eventually advances to the next track
\* (or the user acts first), whichever timer's slot runs first after the end.
C1_EndLeadsToAdvance == ended ~> ~ended

\* C2: between one end of the music and the next, the timers' slots call
\* next_song at most once.
C2_AtMostOneAdvance == advances <= 1

\* C2 witness: the music ended, check_song_end advanced once, and
\* update_position has run after it.
C2_Witness ==
    /\ advances = 1
    /\ op = "update_position"
    /\ is_playing
    /\ ~userStopped

\* C3: a sort_table step with a current track leaves current_index on a row
\* with the path it pointed at before.
C3_SortKeepsCurrentTrack ==
    [][(op' = "sort_table" /\ InRange(current_index, table))
          => (InRange(current_index', table')
              /\ table'[current_index' + 1] = table[current_index + 1])]_vars

\* C4: a shuffle_playlist step with a current track leaves current_index on a
\* row with the path it pointed at before, whatever the permutation.
C4_ShuffleKeepsCurrentTrack ==
    [][(op' = "shuffle_playlist" /\ InRange(current_index, table))
          => (InRange(current_index', table')
              /\ table'[current_index' + 1] = table[current_index + 1])]_vars

\* C4 witness: a shuffle has moved the current track to another row.
C4_Witness ==
    /\ op = "shuffle_playlist"
    /\ pre_index # -1
    /\ InRange(current_index, table)
    /\ current_index # pre_index

\* C5: a shuffle_playlist step leaves the multiset of the rows of the table as
\* it was, and an empty table empty.
C5_ShuffleIsPermutation ==
    [][op' = "shuffle_playlist"
          => (BagOfSeq(table') = BagOfSeq(table)
              /\ Len(table') = Len(table))]_vars

\* C5 witness: a shuffle of a table without current track has left two rows in
\* another order than that of songs.
C5_Witness ==
    /\ op = "shuffle_playlist"
    /\ pre_index = -1
    /\ Len(table) >= 2
    /\ table # songs

\* C6: current_index is -1 or the index of a track of the playlist.
C6_IndexInPlaylist ==
    ~crashed => (current_index = -1 \/ InRange(current_index, songs))

\* C7: the first position update_position computes after a resume is within
\* one period of update_position of the position the music was paused at, and
\* not less than the position shown before the pause.
C7_ResumeContinues ==
    (pauseCtx.resumed /\ pauseCtx.reports = 1 /\ shown.time # -1)
        => (/\ Abs(shown.time - pauseCtx.pos) <= PosTimerUnits
            /\ shown.time >= pauseCtx.before)

\* C8: a position update_position computes after a resume is at most the
\* position the music was paused at plus the audio rendered since the resume,
\* however long the pause was.
C8_PauseTimeNotCounted ==
    (pauseCtx.resumed /\ shown.time # -1)
        => shown.time <= pauseCtx.pos + pauseCtx.rendered

\* C8 witness: a position computed after a resume from a pause that lasted
\* MaxPausedSteps steps, with audio rendered since.
C8_Witness ==
    /\ pauseCtx.resumed
    /\ pauseCtx.steps = MaxPausedSteps
    /\ pauseCtx.rendered > 0
    /\ shown.time # -1

\* C9: after stop(), and until the user acts again, the player is not playing:
\* is_playing is False and no timer has started the music.
C9_StopStaysStopped ==
    userStopped => (~is_playing /\ mixer.status # "playing")

\* C10: the first position update_position computes after a seek to
\* percentage/100 of the track is within one period of update_position of
\* percentage/100 * current_song_length (both sides times 100).
C10_SeekThenPosition ==
    (shown.time # -1 /\ shown.seek.pct # -1)
        => Abs(100 * shown.time - shown.seek.pct * shown.seek.length)
               <= 100 * PosTimerUnits

\* C10 witness: a seek to 25 % while paused, and the position computed one
\* full period later.
C10_Witness ==
    /\ shown.seek.pct = 25
    /\ shown.seek.paused
    /\ shown.seek.length > 0
    /\ shown.time = last_known_position + PosTimerUnits

\* The fields of the player and its widgets, without the timers.
stateVars ==
    <<songs, table, current_index, playerVars, sortVars, current_time, crashed,
      spectrum>>

\* C11: a call of next_song sets current_index to (current_index + 1) mod len
\* and a call of previous_song to (current_index - 1 + len) mod len, len the
\* length of the playlist; with an empty playlist neither changes the state of
\* the player.
C11_NextPreviousWrap ==
    [][/\ (op' = "next_song" \/ (op' = "check_song_end" /\ is_playing /\ ~GetBusy(mixer)))
           => IF songs = <<>> THEN UNCHANGED stateVars
              ELSE current_index' = (current_index + 1) % Len(songs)
       /\ op' = "previous_song"
           => IF songs = <<>> THEN UNCHANGED stateVars
              ELSE current_index' = (current_index - 1 + Len(songs)) % Len(songs)]_vars

\* C11 witness: previous_song has gone from the first track to the last of a
\* playlist of two or more.
C11_Witness ==
    /\ op = "previous_song"
    /\ Len(songs) >= 2
    /\ current_index = Len(songs) - 1

\* C12: len clicks of the next button in a row, from a track of a playlist of
\* len tracks, leave current_index where it was.
C12_NextIsCircular ==
    (run.n = Len(songs) /\ InRange(run.start, songs)) => current_index = run.start

\* C12 witness: one round of a playlist of two or more, begun at its second
\* track.
C12_Witness ==
    /\ run.n = Len(songs)
    /\ Len(songs) >= 2
    /\ run.start = 1
    /\ op = "next_song"

\* The handlers that call play_song() for a fresh load of the row at
\* current_index.
FreshLoadOps == {"next_song", "previous_song", "play_selected_song"}

\* The row play_song was called for in the step.
LoadedRow == table'[current_index' + 1]

Playable(f) == MixerLoads(f) /\ MP3Reads(f)

\* C13: a play_song whose load of the track fails, called while a playable
\* track is the current song, leaves is_playing, current_song,
\* current_song_length and last_known_position as they were before the call.
C13_FailedLoadKeepsState ==
    [][(/\ op' \in FreshLoadOps
        /\ current_song # None
        /\ Playable(current_song)
        /\ InRange(current_index', table')
        /\ ~MixerLoads(LoadedRow))
          => UNCHANGED <<is_playing, current_song, current_song_length,
                         last_known_position>>]_vars

\* The track at current_index is the one play_song failed for, the player is
\* not playing, and the playlist holds a track that plays.
FailedHere ==
    /\ ~crashed
    /\ ~is_playing
    /\ InRange(current_index, table)
    /\ current_song = table[current_index + 1]
    /\ ~Playable(current_song)
    /\ \E i \in 1..Len(table) : Playable(table[i])

\* C14: when play_song has failed for the track at current_index and the
\* playlist holds a playable track, the player eventually plays a playable
\* track, with no need of a user action.
C14_FailedTrackSkipped == FailedHere ~> (is_playing /\ Playable(current_song))

\* C15: a play_song for a track the mixer loads ends with the music playing
\* and is_playing True, whether or not the track's metadata can be read.
C15_PlaysWithoutMetadata ==
    [][(/\ op' \in FreshLoadOps
        /\ InRange(current_index', table')
        /\ MixerLoads(LoadedRow))
          => (/\ is_playing'
              /\ mixer'.status = "playing"
              /\ mixer'.loaded = LoadedRow)]_vars

TickOps == {"update_position", "check_song_end", "update_spectrum"}

C17_SpectrumInRange ==
    (op = "update_spectrum" /\ tick.samples # -1)
        => (/\ 2 * Len(spectrum) = tick.samples
            /\ \A k \in 1..Len(spectrum) : 0 <= spectrum[k] /\ spectrum[k] <= 10000)

\* C17 witness: a frame of four full-scale samples of one sign has been handed
\* over: its first bin is above 100 dB before the clip, its second at -200 dB.
C17_Witness ==
    /\ op = "update_spectrum"
    /\ tick.samples = 4
    /\ spectrum[1] = 10000
    /\ spectrum[2] = 0

\* C18: while is_playing is False, update_position and check_song_end change
\* nothing of the player: not current_index, current_song, is_playing,
\* last_known_position or current_song_length, nor the music or the position
\* shown.
C18_TicksIdleWhenNotPlaying ==
    [][(op' \in {"update_position", "check_song_end"} /\ ~is_playing)
          => UNCHANGED <<current_index, current_song, is_playing, last_known_position,
                         current_song_length, mixer, current_time>>]_vars

\* C18 witness: check_song_end has run on a paused track.
C18_Witness ==
    /\ op = "check_song_end"
    /\ ~is_playing
    /\ mixer.status = "paused"
    /\ pauseCtx.pos # -1

\* C19: last_known_position changes only in a seek, to the fraction of
\* current_song_length the slider was released at, and in a fresh load that
\* starts the music, to 0; not in a pause or a resume, update_position,
\* check_song_end without advance, a sort, a shuffle or an addition of files.
C19_AnchorChanges ==
    [][last_known_position' # last_known_position
          => \/ /\ op' = "seek_position"
                /\ seekCtx'.pct # -1
                /\ 100 * last_known_position' <= seekCtx'.pct * current_song_length
                /\ seekCtx'.pct * current_song_length < 100 * (last_known_position' + 1)
             \/ /\ op' \in FreshLoadOps \cup {"play_pause", "check_song_end"}
                /\ op' = "play_pause" => current_song = None
                /\ op' = "check_song_end" => (is_playing /\ ~GetBusy(mixer))
                /\ last_known_position' = 0
                /\ mixer'.loaded = current_song'
                /\ mixer'.status = "playing"
                /\ mixer'.start = 0]_vars

\* C19 witness: a resume, after a seek into the track, has left the anchor at
\* the seek's target.
C19_Witness ==
    /\ op = "play_pause"
    /\ pauseCtx.resumed
    /\ is_playing
    /\ last_known_position > 0

\* C20: a position update_position computes is at most current_song_length
\* plus one period of update_position.
C20_PositionWithinLength ==
    shown.time # -1 => shown.time <= current_song_length + PosTimerUnits

\* C21: a seek_position with no current song or a current_song_length of 0
\* changes nothing; any other stops the music and plays it from the new
\* offset, sets is_playing, also when the music was paused, and leaves
\* current_index and current_song as they were.
C21_SeekEffect ==
    [][op' = "seek_position"
          => IF current_song = None \/ current_song_length = 0
             THEN UNCHANGED stateVars
             ELSE /\ seekCtx'.pct # -1
                  /\ mixer'.status = "playing"
                  /\ mixer'.pos = 0
                  /\ 100 * mixer'.start <= seekCtx'.pct * current_song_length
                  /\ seekCtx'.pct * current_song_length < 100 * (mixer'.start + 1)
                  /\ last_known_position' = mixer'.start
                  /\ is_playing'
                  /\ ~crashed'
                  /\ UNCHANGED <<current_index, current_song>>]_vars

\* C21 witness: a seek into a paused track has left it playing from the new
\* offset.
C21_Witness ==
    /\ op = "seek_position"
    /\ seekCtx.paused
    /\ seekCtx.pct = 50
    /\ is_playing
    /\ mixer.status = "playing"
    /\ mixer.start > 0

\* C22: play_pause while is_playing pauses: is_playing becomes False and
\* current_index stays; while not playing, with a playable current song loaded
\* in the mixer, it plays that song on without a load: is_playing becomes True
\* and current_song, current_index and the file in the mixer stay; with no
\* current song and a playlist that is not empty it sets current_index to 0
\* and plays that row if it is playable; with no current song and an empty
\* playlist it changes nothing.
C22_PlayPauseToggles ==
    [][op' = "play_pause"
          => /\ is_playing
                  => (/\ ~is_playing'
                      /\ mixer'.status # "playing"
                      /\ UNCHANGED current_index)
             /\ (/\ ~is_playing
                 /\ current_song # None
                 /\ mixer.loaded = current_song
                 /\ Playable(current_song))
                  => (/\ is_playing'
                      /\ mixer'.status = "playing"
                      /\ mixer'.loaded = mixer.loaded
                      /\ UNCHANGED <<current_song, current_index>>)
             /\ (~is_playing /\ current_song = None /\ songs # <<>>)
                  => (/\ current_index' = 0
                      /\ Playable(table[1])
                            => (/\ is_playing'
                                /\ mixer'.status = "playing"
                                /\ mixer'.loaded = table[1]))
             /\ (~is_playing /\ current_song = None /\ songs = <<>>)
                  => UNCHANGED stateVars]_vars

\* C23: an add_files_to_playlist step that returns keeps every track of the
\* playlist, shows them all in the table, and with a current track leaves
\* current_index on a row with the path it pointed at before, whatever the
\* order of the table was.
C23_AddKeepsTracks ==
    [][(op' = "add_files_to_playlist" /\ ~crashed')
          => /\ \A f \in Files :
                   Cardinality({i \in 1..Len(songs) : songs[i] = f})
                     <= Cardinality({i \in 1..Len(songs') : songs'[i] = f})
             /\ BagOfSeq(table') = BagOfSeq(songs')
             /\ InRange(current_index, table)
                  => (/\ InRange(current_index', table')
                      /\ table'[current_index' + 1] = table[current_index + 1])]_vars

\* C23 witness: a file added to a table of two or more rows that had been
\* sorted in descending order has moved the current track to another row.
C23_Witness ==
    /\ op = "add_files_to_playlist"
    /\ current_sort_order = "desc"
    /\ Len(table) >= 3
    /\ pre_index # -1
    /\ InRange(current_index, table)
    /\ current_index # pre_index

\* C24: the table has as many rows as songs has tracks, so the index next_song
\* or previous_song computes modulo len(songs), from whatever index, passes
\* the range check of play_song.
C24_RowsMatchSongs ==
    ~crashed
        => /\ Len(table) = Len(songs)
           /\ songs # <<>>
                => \A idx \in -1..Len(songs) :
                      /\ InRange(next_index(idx, Len(songs)), table)
                      /\ InRange(previous_index(idx, Len(songs)), table)

\* C24 witness: next_song has wrapped to the first row of a shuffled or sorted
\* table and play_song has taken that row.
C24_Witness ==
    /\ op = "next_song"
    /\ Len(table) >= 2
    /\ table # songs
    /\ current_index = 0
    /\ current_song = table[1]

\* C25: while is_playing, current_song is the file the mixer loaded last and
\* current_song_length is the length of that file.
C25_PlayingSongIsLoaded ==
    is_playing
        => /\ current_song # None
           /\ current_song = mixer.loaded
           /\ current_song_length = Dur(mixer.loaded)

====
